---- MODULE Spec2Model ----
(***************************************************************************)
(* A model of the file-backed ORM of this repository: the Field            *)
(* descriptors (orm/fields), the Model base class (orm/models/model.py)    *)
(* and the JSON table file it reads and rewrites.                          *)
(*                                                                         *)
(* Python values are records [t, i, s]: t is the Python type, i the value  *)
(* of an int, s the characters of a str (a sequence of character codes).   *)
(* A dict is the sequence of its [k, v] entries in insertion order.        *)
(***************************************************************************)
EXTENDS Integers, Sequences, FiniteSets, TLC

VARIABLES cls, file, inst, autoCounters, uuidCount, res, pc, loaded

vars == <<cls, file, inst, autoCounters, uuidCount, res, pc, loaded>>

(***************************************************************************)
(* Bounds of the model.                                                    *)
(***************************************************************************)
\* instance variables the client program holds
MaxInst == 1
\* ids a primary-key generator hands out before the model stops generating
MaxGen == 2
\* elements of the table file the program finds at start
MaxInitRows == 1

(***************************************************************************)
(* Python values.                                                          *)
(***************************************************************************)
NoneV == [t |-> "none", i |-> 0, s |-> <<>>]
IntV(n) == [t |-> "int", i |-> n, s |-> <<>>]
StrV(chars) == [t |-> "str", i |-> 0, s |-> chars]
\* the state of a private attribute that was never set (hasattr is False)
Unset == [t |-> "unset", i |-> 0, s |-> <<>>]

\* character codes: 'A'..'Z' are 65..90 and 'a'..'z' are 97..122
IsLower(ch) == ch >= 97 /\ ch <= 122
IsUpper(ch) == ch >= 65 /\ ch <= 90
IsCased(ch) == IsLower(ch) \/ IsUpper(ch)
ToUpper(ch) == IF IsLower(ch) THEN ch - 32 ELSE ch
ToLower(ch) == IF IsUpper(ch) THEN ch + 32 ELSE ch

\* str.title(): a cased character is upper-cased after an uncased one (or at
\* the start) and lower-cased after a cased one
Title(chars) ==
    [n \in 1..Len(chars) |->
        IF n = 1 \/ ~IsCased(chars[n - 1])
        THEN ToUpper(chars[n])
        ELSE ToLower(chars[n])]

\* the strings of the model: "al", "Al", "alfred"
S_al == <<97, 108>>
S_Al == <<65, 108>>
S_alfred == <<97, 108, 102, 114, 101, 100>>
\* the strings of the field tests: "valid", "INVALID", "toolong", "other",
\* "short", "too_long", "choice1", "choice2", "invalid_choice"
S_valid == <<118, 97, 108, 105, 100>>
S_INVALID == <<73, 78, 86, 65, 76, 73, 68>>
S_toolong == <<116, 111, 111, 108, 111, 110, 103>>
S_other == <<111, 116, 104, 101, 114>>
S_short == <<115, 104, 111, 114, 116>>
S_too_long == <<116, 111, 111, 95, 108, 111, 110, 103>>
S_choice1 == <<99, 104, 111, 105, 99, 101, 49>>
S_choice2 == <<99, 104, 111, 105, 99, 101, 50>>
S_invalid_choice == <<105, 110, 118, 97, 108, 105, 100, 95, 99, 104, 111, 105, 99, 101>>

\* str.islower(): some character is cased and no cased character is upper
IsLowerStr(chars) ==
    /\ \E n \in 1..Len(chars) : IsCased(chars[n])
    /\ \A n \in 1..Len(chars) : ~IsUpper(chars[n])

(***************************************************************************)
(* dicts                                                                   *)
(***************************************************************************)
Entry(k, v) == [k |-> k, v |-> v]
EmptyDict == <<>>
Has(d, k) == \E n \in 1..Len(d) : d[n].k = k
\* dict.get(k): the value, or None when the key is absent
Get(d, k) ==
    IF Has(d, k) THEN d[CHOOSE n \in 1..Len(d) : d[n].k = k].v ELSE NoneV
KeysOf(d) == [n \in 1..Len(d) |-> d[n].k]
SeqToSet(q) == {q[n] : n \in 1..Len(q)}
\* dict == dict: the same keys with equal values, in any order
DictEq(d, e) ==
    /\ SeqToSet(KeysOf(d)) = SeqToSet(KeysOf(e))
    /\ \A k \in SeqToSet(KeysOf(d)) : Get(d, k) = Get(e, k)

(***************************************************************************)
(* Errors.  kind is the exception class, what the raise site, names the    *)
(* field names a message lists, crit the criteria a message prints.        *)
(***************************************************************************)
Err(kind, what, names, crit) ==
    [kind |-> kind, what |-> what, names |-> names, crit |-> crit]
NoErr == Err("none", "", <<>>, EmptyDict)
TypeErr(name) == Err("TypeError", "type", <<name>>, EmptyDict)
ValidationErr(what, name) == Err("ValidationError", what, <<name>>, EmptyDict)

(***************************************************************************)
(* Field declarations and the model classes.                               *)
(***************************************************************************)
NoChoices == [none |-> TRUE, vals |-> {}]
Choices(vals) == [none |-> FALSE, vals |-> vals]

FieldDecl(name, kind, required, default, max_length, choices, validator, auto, uuid_mode) ==
    [name |-> name, kind |-> kind, required |-> required, default |-> default,
     max_length |-> max_length, choices |-> choices, validator |-> validator,
     auto |-> auto, uuid_mode |-> uuid_mode]

\* Field(required=..., default=..., max_length=...)
PlainField(name, required, default, max_length) ==
    FieldDecl(name, "Field", required, default, max_length, NoChoices, "none", FALSE, FALSE)
StringField(name, required) ==
    FieldDecl(name, "StringField", required, NoneV, NoneV, NoChoices, "none", FALSE, FALSE)
IntegerField(name, required) ==
    FieldDecl(name, "IntegerField", required, NoneV, NoneV, NoChoices, "none", FALSE, FALSE)
\* PrimaryKeyField.__init__ calls super().__init__() with no arguments
PrimaryKeyField(name, auto, uuid_mode) ==
    FieldDecl(name, "PrimaryKeyField", FALSE, NoneV, NoneV, NoChoices, "none", auto, uuid_mode)

DefaultAge == 18
MinAge == 18
MaxNameLen == 5

ClassNames == {"TestUser", "User", "Member", "Ticket"}
\* the TestModel classes of the field tests, each with the one attribute
\* test_field, named by the constraint its Field declares
FieldClasses == {"RequiredModel", "MaxLengthModel", "ChoicesModel", "ValidatorModel",
                 "CombinedModel"}
\* a model class that declares no field named uid
KeylessClasses == {"Tag"}
AllClasses == ClassNames \cup FieldClasses \cup KeylessClasses

\* the field declarations of each class, in declaration order
Declared ==
    [c \in AllClasses |->
        CASE c = "TestUser" ->
               << PlainField("uid", TRUE, NoneV, NoneV),
                  PlainField("name", TRUE, NoneV, NoneV),
                  PlainField("age", FALSE, IntV(DefaultAge), NoneV) >>
          [] c = "User" ->
               << PrimaryKeyField("uid", TRUE, FALSE),
                  StringField("name", TRUE),
                  IntegerField("age", FALSE) >>
          [] c = "Member" ->
               << PlainField("uid", TRUE, NoneV, NoneV),
                  PlainField("name", TRUE, NoneV, IntV(MaxNameLen)),
                  PlainField("age", FALSE, IntV(DefaultAge), NoneV) >>
          [] c = "Ticket" ->
               << PrimaryKeyField("uid", FALSE, TRUE),
                  StringField("name", TRUE) >>
          [] c = "RequiredModel" ->
               << PlainField("test_field", TRUE, NoneV, NoneV) >>
          [] c = "MaxLengthModel" ->
               << PlainField("test_field", FALSE, NoneV, IntV(5)) >>
          [] c = "ChoicesModel" ->
               << FieldDecl("test_field", "Field", FALSE, NoneV, NoneV,
                            Choices({StrV(S_choice1), StrV(S_choice2)}), "none",
                            FALSE, FALSE) >>
          [] c = "ValidatorModel" ->
               << FieldDecl("test_field", "Field", FALSE, NoneV, NoneV, NoChoices,
                            "positive", FALSE, FALSE) >>
          [] c = "CombinedModel" ->
               << FieldDecl("test_field", "Field", TRUE, NoneV, IntV(5),
                            Choices({StrV(S_valid)}), "islower", FALSE, FALSE) >>
          [] c = "Tag" ->
               << PlainField("name", TRUE, NoneV, NoneV),
                  PlainField("age", FALSE, IntV(DefaultAge), NoneV) >>]

\* cls._get_fields(): the Field attributes of the class
Fields(c) == Declared[c]

HasBeforeSave(c) == c = "User"
HasClean(c) == c = "User"

FieldNames(c) == [n \in 1..Len(Fields(c)) |-> Fields(c)[n].name]
IsField(c, k) == \E fd \in SeqToSet(Fields(c)) : fd.name = k
FieldOf(c, k) == CHOOSE fd \in SeqToSet(Fields(c)) : fd.name = k

\* every attribute name the model uses; "zzz" is declared by no class
AttrNames == {"uid", "name", "age", "test_field"}
UnknownKey == "zzz"

(***************************************************************************)
(* Field.validate and the descriptors' __set__.                            *)
(***************************************************************************)
\* the custom validators of the model: "positive" is lambda x: x > 0, which
\* raises TypeError when x is not a number; "islower" is
\* lambda x: x.islower(), which raises AttributeError when x is not a string
CustomRaises(validator, v) ==
    \/ validator = "positive" /\ v.t # "int"
    \/ validator = "islower" /\ v.t # "str"
CustomAccepts(validator, v) ==
    /\ validator = "positive" => v.i > 0
    /\ validator = "islower" => IsLowerStr(v.s)
\* the exception a validator raises on a value it cannot handle
CustomErr(fd) ==
    IF fd.validator = "islower"
    THEN Err("AttributeError", "validator", <<fd.name>>, EmptyDict)
    ELSE TypeErr(fd.name)

Validate(fd, v) ==
    IF fd.required /\ v = NoneV
    THEN ValidationErr("required", fd.name)
    ELSE IF fd.max_length # NoneV /\ v.t = "str" /\ Len(v.s) > fd.max_length.i
    THEN ValidationErr("max_length", fd.name)
    ELSE IF ~fd.choices.none /\ v \notin fd.choices.vals
    THEN ValidationErr("choices", fd.name)
    ELSE IF fd.validator # "none" /\ CustomRaises(fd.validator, v)
    THEN CustomErr(fd)
    ELSE IF fd.validator # "none" /\ ~CustomAccepts(fd.validator, v)
    THEN ValidationErr("custom", fd.name)
    ELSE NoErr

\* the isinstance check a typed field makes before Field.__set__
TypeCheck(fd, v) ==
    IF fd.kind = "StringField" /\ v.t # "str" THEN TypeErr(fd.name)
    ELSE IF fd.kind \in {"IntegerField", "PrimaryKeyField"} /\ v.t # "int"
    THEN TypeErr(fd.name)
    ELSE NoErr

\* the error of `instance.<field> = v`, NoErr when the value is stored
SetError(fd, v) ==
    LET Typed(te) == IF te.kind # "none" THEN te ELSE Validate(fd, v)
    IN Typed(TypeCheck(fd, v))

(***************************************************************************)
(* Model.__init__                                                          *)
(***************************************************************************)
NoAttrs == [a \in AttrNames |-> Unset]

\* Throughout, CHOOSE r \in {F(x) : x \in {e}} : TRUE is F(e) with the
\* intermediate result e computed once and named x.

\* a __set__ that stores the value before it validates it
RECURSIVE ApplySetsStoreFirst(_, _, _)
ApplySetsStoreFirst(c, entries, attrs) ==
    IF entries = <<>> THEN [err |-> NoErr, attrs |-> attrs]
    ELSE LET Set(e, er) ==
                 IF er.kind # "none"
                 THEN [err |-> er, attrs |-> [attrs EXCEPT ![e.k] = e.v]]
                 ELSE ApplySetsStoreFirst(c, Tail(entries), [attrs EXCEPT ![e.k] = e.v])
         IN CHOOSE r \in {Set(e, SetError(FieldOf(c, e.k), e.v)) :
                           e \in {Head(entries)}} : TRUE

\* setattr(self, k, v) for each entry in order; the first error ends it
RECURSIVE ApplySets(_, _, _)
ApplySets(c, entries, attrs) ==
    IF entries = <<>> THEN [err |-> NoErr, attrs |-> attrs]
    ELSE LET Set(e, er) ==
                 IF er.kind # "none" THEN [err |-> er, attrs |-> attrs]
                 ELSE ApplySets(c, Tail(entries), [attrs EXCEPT ![e.k] = e.v])
         IN CHOOSE r \in {Set(e, SetError(FieldOf(c, e.k), e.v)) :
                           e \in {Head(entries)}} : TRUE

RECURSIVE MissingIn(_, _)
MissingIn(fields, kwargs) ==
    IF fields = <<>> THEN <<>>
    ELSE (IF /\ Head(fields).required
             /\ ~Has(kwargs, Head(fields).name)
             /\ Head(fields).default = NoneV
          THEN <<Head(fields).name>>
          ELSE <<>>)
         \o MissingIn(Tail(fields), kwargs)

\* an __init__ that reports the first missing field only
MissingFirstOnly(c, kwargs) ==
    LET First(all) == IF all = <<>> THEN all ELSE <<all[1]>>
    IN First(MissingIn(Fields(c), kwargs))

\* missing_fields: every required field absent from kwargs with no default
MissingFields(c, kwargs) == MissingIn(Fields(c), kwargs)

\* the defaults __init__ assigns, in declaration order
RECURSIVE DefaultEntries(_, _)
DefaultEntries(fields, kwargs) ==
    IF fields = <<>> THEN <<>>
    ELSE (IF ~Has(kwargs, Head(fields).name) /\ Head(fields).default # NoneV
          THEN <<Entry(Head(fields).name, Head(fields).default)>>
          ELSE <<>>)
         \o DefaultEntries(Tail(fields), kwargs)

RECURSIVE InvalidIn(_, _)
InvalidIn(c, entries) ==
    IF entries = <<>> THEN <<>>
    ELSE (IF IsField(c, Head(entries).k) THEN <<>> ELSE <<Head(entries).k>>)
         \o InvalidIn(c, Tail(entries))

\* invalid_fields: every key of kwargs that is no declared field
InvalidFields(c, kwargs) == InvalidIn(c, kwargs)

\* cls(**kwargs): [err, attrs]; attrs are the private attributes of the new
\* instance and mean nothing when err is an error
Construct(c, kwargs) ==
    LET Failed(err) == [err |-> err, attrs |-> NoAttrs]
        Given(given) == IF given.err.kind # "none" THEN Failed(given.err) ELSE given
        Checked(invalid, dflt) ==
            IF dflt.err.kind # "none" THEN Failed(dflt.err)
            ELSE IF invalid # <<>>
            THEN Failed(Err("AttributeError", "invalid_fields", invalid, EmptyDict))
            ELSE Given(ApplySets(c, kwargs, dflt.attrs))
        Required(missing) ==
            IF missing # <<>>
            THEN Failed(Err("ValueError", "missing", missing, EmptyDict))
            ELSE CHOOSE r \in {Checked(InvalidFields(c, kwargs), dflt) :
                     dflt \in {ApplySets(c, DefaultEntries(Fields(c), kwargs), NoAttrs)}} :
                     TRUE
    IN CHOOSE r \in {Required(missing) : missing \in {MissingFields(c, kwargs)}} : TRUE

(***************************************************************************)
(* Descriptor reads and to_dict.  gen is the state of the key generators   *)
(* the read may advance: [auto |-> _auto_id_counters[cls], uuid |-> the    *)
(* number of uuid4() values drawn so far].                                 *)
(***************************************************************************)
\* the n-th value of str(uuid.uuid4()): a string no earlier draw returned
UuidValue(n) == StrV(<<117, 48 + n>>)

\* a _generate_id that returns the next integer and leaves the counter
GenerateIdNoAdvance(fd, gen) ==
    IF fd.auto THEN [v |-> IntV(gen.auto + 1), gen |-> gen]
    ELSE IF fd.uuid_mode
    THEN [v |-> UuidValue(gen.uuid + 1), gen |-> [gen EXCEPT !.uuid = gen.uuid + 1]]
    ELSE [v |-> NoneV, gen |-> gen]

\* PrimaryKeyField._generate_id(owner): [v, gen]
GenerateId(fd, gen) ==
    IF fd.auto
    THEN [v |-> IntV(gen.auto + 1), gen |-> [gen EXCEPT !.auto = gen.auto + 1]]
    ELSE IF fd.uuid_mode
    THEN [v |-> UuidValue(gen.uuid + 1), gen |-> [gen EXCEPT !.uuid = gen.uuid + 1]]
    ELSE [v |-> NoneV, gen |-> gen]

\* getattr(instance, fd.name): [v, attrs, gen].  Field.__get__ returns the
\* stored value or None; PrimaryKeyField.__get__ generates and caches a value
\* when none is stored
ReadField(fd, attrs, gen) ==
    IF attrs[fd.name] # Unset
    THEN [v |-> attrs[fd.name], attrs |-> attrs, gen |-> gen]
    ELSE IF fd.kind = "PrimaryKeyField"
    THEN LET Cached(g) ==
                 [v |-> g.v, attrs |-> [attrs EXCEPT ![fd.name] = g.v], gen |-> g.gen]
         IN Cached(GenerateId(fd, gen))
    ELSE [v |-> NoneV, attrs |-> attrs, gen |-> gen]

RECURSIVE ToDictFrom(_, _, _, _)
ToDictFrom(fields, attrs, gen, acc) ==
    IF fields = <<>> THEN [d |-> acc, attrs |-> attrs, gen |-> gen]
    ELSE CHOOSE d \in {ToDictFrom(Tail(fields), r.attrs, r.gen,
                                   Append(acc, Entry(Head(fields).name, r.v))) :
                        r \in {ReadField(Head(fields), attrs, gen)}} : TRUE

\* self.to_dict(): [d, attrs, gen]
ToDict(c, attrs, gen) == ToDictFrom(Fields(c), attrs, gen, EmptyDict)

(***************************************************************************)
(* The hooks of class User.                                                *)
(***************************************************************************)
\* before_save: self.name = self.name.title(); [err, attrs]
BeforeSave(c, attrs) ==
    LET Titled(name) ==
            IF name.t # "str"
            THEN [err |-> Err("AttributeError", "title", <<"name">>, EmptyDict),
                  attrs |-> attrs]
            ELSE ApplySets(c, <<Entry("name", StrV(Title(name.s)))>>, attrs)
    IN Titled(IF attrs["name"] = Unset THEN NoneV ELSE attrs["name"])

\* clean: raises ValueError when age is set and below 18
CleanError(c, attrs) ==
    LET Checked(age) ==
            IF age.t # "none" /\ age.i < MinAge
            THEN Err("ValueError", "clean", <<"age">>, EmptyDict)
            ELSE NoErr
    IN Checked(IF attrs["age"] = Unset THEN NoneV ELSE attrs["age"])

\* a save() that calls clean before before_save
RunHooksCleanFirst(c, attrs) ==
    LET Saved(bs) ==
            [err |-> bs.err, attrs |-> bs.attrs,
             log |-> (IF HasClean(c) THEN <<"clean">> ELSE <<>>)
                     \o (IF HasBeforeSave(c) THEN <<"before_save">> ELSE <<>>)]
        Cleaned(err) ==
            IF HasClean(c) /\ err.kind # "none"
            THEN [err |-> err, attrs |-> attrs, log |-> <<"clean">>]
            ELSE Saved(IF HasBeforeSave(c) THEN BeforeSave(c, attrs)
                       ELSE [err |-> NoErr, attrs |-> attrs])
    IN Cleaned(CleanError(c, attrs))

\* the hook calls at the head of save(): [err, attrs, log]; log lists the
\* hooks in the order they ran
RunHooks(c, attrs) ==
    LET Cleaned(bs, log1) ==
            IF bs.err.kind # "none"
            THEN [err |-> bs.err, attrs |-> bs.attrs, log |-> log1]
            ELSE IF HasClean(c)
            THEN [err |-> CleanError(c, bs.attrs), attrs |-> bs.attrs,
                  log |-> Append(log1, "clean")]
            ELSE [err |-> NoErr, attrs |-> bs.attrs, log |-> log1]
    IN CHOOSE r \in {Cleaned(bs, IF HasBeforeSave(c) THEN <<"before_save">> ELSE <<>>) :
                      bs \in {IF HasBeforeSave(c) THEN BeforeSave(c, attrs)
                               ELSE [err |-> NoErr, attrs |-> attrs]}} : TRUE

(***************************************************************************)
(* The table file.  exists: os.path.exists; json: the text parses as JSON  *)
(* (an array); rows: the elements of the array.  An element is             *)
(* [isdict, d]: a JSON object with its entries, or some other JSON value.  *)
(* JSON values are records like Python values with t one of "null",        *)
(* "number", "string".                                                     *)
(***************************************************************************)
\* json.dump of a value
JsonOfValue(v) ==
    CASE v.t = "none" -> [t |-> "null", i |-> 0, s |-> <<>>]
      [] v.t = "int" -> [t |-> "number", i |-> v.i, s |-> <<>>]
      [] v.t = "str" -> [t |-> "string", i |-> 0, s |-> v.s]
\* json.load of a value
ValueOfJson(j) ==
    CASE j.t = "null" -> NoneV
      [] j.t = "number" -> IntV(j.i)
      [] j.t = "string" -> StrV(j.s)
JsonOfDict(d) == [n \in 1..Len(d) |-> Entry(d[n].k, JsonOfValue(d[n].v))]
DictOfJson(o) == [n \in 1..Len(o) |-> Entry(o[n].k, ValueOfJson(o[n].v))]

Object(o) == [isdict |-> TRUE, d |-> o]
\* an array element that is no object, such as a number
NotAnObject == [isdict |-> FALSE, d |-> <<>>]

MissingFile == [exists |-> FALSE, json |-> FALSE, rows |-> <<>>]
CorruptFile == [exists |-> TRUE, json |-> FALSE, rows |-> <<>>]
TableFile(rows) == [exists |-> TRUE, json |-> TRUE, rows |-> rows]

\* json.load(file) on an existing file: the list of items, each a Python
\* dict or not; err is JSONDecodeError when the text is not JSON
JsonLoad(f) ==
    IF f.json
    THEN [err |-> NoErr,
          data |-> [n \in 1..Len(f.rows) |->
                      [isdict |-> f.rows[n].isdict, d |-> DictOfJson(f.rows[n].d)]]]
    ELSE [err |-> Err("JSONDecodeError", "json.load", <<>>, EmptyDict), data |-> <<>>]

\* json.dump(data, file) after open(file, "w")
JsonDump(data) ==
    TableFile([n \in 1..Len(data) |->
                 [isdict |-> data[n].isdict, d |-> JsonOfDict(data[n].d)]])

(***************************************************************************)
(* Model.save                                                              *)
(***************************************************************************)
\* a save() that starts from an empty list whatever the file holds
LoadNothing(f) == <<>>

\* "Load existing data": the list save() works on
LoadExisting(f) ==
    LET Read(r) == IF r.err.kind = "JSONDecodeError" THEN <<>> ELSE r.data
    IN IF f.exists THEN Read(JsonLoad(f)) ELSE <<>>

\* a loop that matches a record only when both dicts have the key "uid"
RECURSIVE UpsertFromKeyed(_, _, _)
UpsertFromKeyed(data, record, n) ==
    IF n > Len(data)
    THEN [err |-> NoErr, data |-> Append(data, [isdict |-> TRUE, d |-> record]),
          found |-> FALSE]
    ELSE IF ~data[n].isdict
    THEN [err |-> Err("AttributeError", "item.get", <<>>, EmptyDict), data |-> data,
          found |-> FALSE]
    ELSE IF /\ Has(data[n].d, "uid") /\ Has(record, "uid")
            /\ Get(data[n].d, "uid") = Get(record, "uid")
    THEN [err |-> NoErr,
          data |-> [data EXCEPT ![n] = [isdict |-> TRUE, d |-> record]],
          found |-> TRUE]
    ELSE UpsertFromKeyed(data, record, n + 1)

\* the for/else loop of save() from index n on: [err, data, found]; found
\* tells whether the loop ended at its break
RECURSIVE UpsertFrom(_, _, _)
UpsertFrom(data, record, n) ==
    IF n > Len(data)
    THEN [err |-> NoErr, data |-> Append(data, [isdict |-> TRUE, d |-> record]),
          found |-> FALSE]
    ELSE IF ~data[n].isdict
    THEN [err |-> Err("AttributeError", "item.get", <<>>, EmptyDict), data |-> data,
          found |-> FALSE]
    ELSE IF Get(data[n].d, "uid") = Get(record, "uid")
    THEN [err |-> NoErr,
          data |-> [data EXCEPT ![n] = [isdict |-> TRUE, d |-> record]],
          found |-> TRUE]
    ELSE UpsertFrom(data, record, n + 1)

\* a save() that never looks for an existing record
UpsertAppends(data, record) ==
    [err |-> NoErr, data |-> Append(data, [isdict |-> TRUE, d |-> record]),
     found |-> FALSE]

\* a save() that puts a record with a new key in front of the list
UpsertInFront(data, record) ==
    LET Moved(up) ==
            IF up.found \/ up.err.kind # "none" THEN up
            ELSE [up EXCEPT !.data = <<[isdict |-> TRUE, d |-> record]>> \o data]
    IN Moved(UpsertFrom(data, record, 1))

\* "Check for existing record and update"
Upsert(data, record) == UpsertFrom(data, record, 1)

\* what "Load existing data" does to the file, for the log of save()
LoadLog(f) ==
    IF ~f.exists THEN <<"exists">>
    ELSE IF ~f.json THEN <<"exists", "read", "decode_error">>
    ELSE <<"exists", "read">>

\* self.save() as one call: [err, attrs, gen, file, log, rec].  log lists the
\* hooks and file accesses in the order they happened, rec is the record
\* to_dict() produced (EmptyDict when save() ended before it)
Save(c, attrs, gen, f) ==
    LET Written(hooks, td, up) ==
            IF up.err # NoErr
            THEN [err |-> up.err, attrs |-> td.attrs, gen |-> td.gen, file |-> f,
                  log |-> hooks.log \o LoadLog(f), rec |-> td.d]
            ELSE [err |-> NoErr, attrs |-> td.attrs, gen |-> td.gen,
                  file |-> JsonDump(up.data),
                  log |-> hooks.log \o LoadLog(f)
                          \o <<IF up.found THEN "update" ELSE "insert", "write">>,
                  rec |-> td.d]
        Upserted(hooks, data, td) ==
            CHOOSE r \in {Written(hooks, td, up) : up \in {Upsert(data, td.d)}} : TRUE
        Loaded(hooks, data) ==
            CHOOSE r \in {Upserted(hooks, data, td) :
                            td \in {ToDict(c, hooks.attrs, gen)}} : TRUE
        Hooked(hooks) ==
            IF hooks.err # NoErr
            THEN [err |-> hooks.err, attrs |-> hooks.attrs, gen |-> gen, file |-> f,
                  log |-> hooks.log, rec |-> EmptyDict]
            ELSE CHOOSE r \in {Loaded(hooks, data) : data \in {LoadExisting(f)}} : TRUE
    IN CHOOSE r \in {Hooked(hooks) : hooks \in {RunHooks(c, attrs)}} : TRUE

(***************************************************************************)
(* Model.all, Model.filter, Model.get                                      *)
(***************************************************************************)
\* cls._is_valid_entry(item): "yes", "no", or "raise" when cls(**item)
\* raises an exception the method does not catch
IsValidEntry(c, item) ==
    LET Caught(kind) ==
            IF kind = "none" THEN "yes"
            ELSE IF kind \in {"TypeError", "ValueError"} THEN "no"
            ELSE "raise"
    IN Caught(Construct(c, item).err.kind)

\* the list comprehension of all() from index n on: [err, out]; out is the
\* list of instances, each given by its private attributes
RECURSIVE AllFrom(_, _, _, _)
AllFrom(c, data, n, acc) ==
    IF n > Len(data) THEN [err |-> NoErr, out |-> acc]
    ELSE IF ~data[n].isdict THEN AllFrom(c, data, n + 1, acc)
    ELSE LET Kept(valid, made) ==
                 IF valid = "raise" THEN [err |-> made.err, out |-> <<>>]
                 ELSE AllFrom(c, data, n + 1,
                              IF valid = "no" THEN acc ELSE Append(acc, made.attrs))
         IN CHOOSE a \in {Kept(IsValidEntry(c, data[n].d), made) :
                           made \in {Construct(c, data[n].d)}} : TRUE

\* an all() that lets the JSONDecodeError of a corrupt file through
AllNoCatch(c, f) ==
    LET Read(r) ==
            IF ~f.exists THEN [err |-> NoErr, out |-> <<>>]
            ELSE IF r.err # NoErr THEN [err |-> r.err, out |-> <<>>]
            ELSE AllFrom(c, r.data, 1, <<>>)
    IN CHOOSE a \in {Read(r) : r \in {JsonLoad(f)}} : TRUE

\* cls.all(): [err, out]
All(c, f) ==
    LET Read(r) ==
            IF ~f.exists THEN [err |-> NoErr, out |-> <<>>]
            ELSE IF r.err.kind = "JSONDecodeError" THEN [err |-> NoErr, out |-> <<>>]
            ELSE AllFrom(c, r.data, 1, <<>>)
    IN CHOOSE a \in {Read(r) : r \in {JsonLoad(f)}} : TRUE

\* all(getattr(obj, key) == value for key, value in kwargs.items()) from
\* entry n on: [err, ok, attrs, gen]
RECURSIVE MatchFrom(_, _, _, _, _)
MatchFrom(c, attrs, crit, n, gen) ==
    IF n > Len(crit) THEN [err |-> NoErr, ok |-> TRUE, attrs |-> attrs, gen |-> gen]
    ELSE IF ~IsField(c, crit[n].k)
    THEN [err |-> Err("AttributeError", "getattr", <<crit[n].k>>, EmptyDict),
          ok |-> FALSE, attrs |-> attrs, gen |-> gen]
    ELSE LET Compared(r) ==
                 IF r.v # crit[n].v
                 THEN [err |-> NoErr, ok |-> FALSE, attrs |-> r.attrs, gen |-> r.gen]
                 ELSE MatchFrom(c, r.attrs, crit, n + 1, r.gen)
         IN CHOOSE m \in {Compared(r) :
                           r \in {ReadField(FieldOf(c, crit[n].k), attrs, gen)}} : TRUE

\* the list comprehension of filter() over objs from index n on:
\* [err, out, gen]
RECURSIVE FilterFrom(_, _, _, _, _, _)
FilterFrom(c, objs, crit, n, gen, acc) ==
    IF n > Len(objs) THEN [err |-> NoErr, out |-> acc, gen |-> gen]
    ELSE LET Matched(m) ==
                 IF m.err # NoErr THEN [err |-> m.err, out |-> <<>>, gen |-> m.gen]
                 ELSE FilterFrom(c, objs, crit, n + 1, m.gen,
                                 IF m.ok THEN Append(acc, m.attrs) ELSE acc)
         IN CHOOSE a \in {Matched(m) : m \in {MatchFrom(c, objs[n], crit, 1, gen)}} : TRUE

\* a filter() that compares the first criterion only
FilterFirstKey(c, f, crit, gen) ==
    LET Over(objs) ==
            IF objs.err # NoErr THEN [err |-> objs.err, out |-> <<>>, gen |-> gen]
            ELSE FilterFrom(c, objs.out, IF crit = <<>> THEN crit ELSE <<crit[1]>>,
                            1, gen, <<>>)
    IN CHOOSE a \in {Over(objs) : objs \in {All(c, f)}} : TRUE

\* cls.filter(**crit): [err, out, gen]
Filter(c, f, crit, gen) ==
    LET Over(objs) ==
            IF objs.err # NoErr THEN [err |-> objs.err, out |-> <<>>, gen |-> gen]
            ELSE FilterFrom(c, objs.out, crit, 1, gen, <<>>)
    IN CHOOSE a \in {Over(objs) : objs \in {All(c, f)}} : TRUE

\* a get() that returns the first of several matches
GetFirst(c, f, crit, gen) ==
    LET One(m) ==
            IF m.err # NoErr THEN m
            ELSE IF m.out = <<>>
            THEN [err |-> Err("ValueError", "not_found", <<>>, crit), out |-> <<>>,
                  gen |-> m.gen]
            ELSE [err |-> NoErr, out |-> <<m.out[1]>>, gen |-> m.gen]
    IN CHOOSE a \in {One(m) : m \in {Filter(c, f, crit, gen)}} : TRUE

\* cls.get(**crit): [err, out, gen]; out holds the one instance returned
GetOne(c, f, crit, gen) ==
    LET One(m) ==
            IF m.err # NoErr THEN m
            ELSE IF m.out = <<>>
            THEN [err |-> Err("ValueError", "not_found", <<>>, crit), out |-> <<>>,
                  gen |-> m.gen]
            ELSE IF Len(m.out) > 1
            THEN [err |-> Err("ValueError", "multiple", <<>>, crit), out |-> <<>>,
                  gen |-> m.gen]
            ELSE [err |-> NoErr, out |-> <<m.out[1]>>, gen |-> m.gen]
    IN CHOOSE a \in {One(m) : m \in {Filter(c, f, crit, gen)}} : TRUE
(***************************************************************************)
(* State.                                                                  *)
(*   cls           the model class the program works with                  *)
(*   file          the table file of cls                                   *)
(*   inst          the instances the client holds: [alive, attrs]          *)
(*   autoCounters  PrimaryKeyField._auto_id_counters                       *)
(*   uuidCount     the number of uuid4() values drawn                      *)
(*   res           the last call: its name, arguments, exception, result   *)
(*   pc, loaded    the position and the loaded list of each concurrent     *)
(*                 writer (specification SpecWriters)                      *)
(***************************************************************************)
Slots == 1..MaxInst
NoInst == [alive |-> FALSE, attrs |-> NoAttrs]

Result(op, who, arg, err, out, rec, log) ==
    [op |-> op, who |-> who, arg |-> arg, err |-> err, out |-> out,
     rec |-> rec, log |-> log]
NoResult == Result("none", 0, EmptyDict, NoErr, <<>>, EmptyDict, <<>>)

GenOf(c) == [auto |-> autoCounters[c], uuid |-> uuidCount]
GenWithin(gen) == gen.auto <= MaxGen /\ gen.uuid <= MaxGen

\* the inputs of the client program
V_al == StrV(S_al)
V_Al == StrV(S_Al)
V_alfred == StrV(S_alfred)
YoungAge == MinAge - 1
AdultAge == MinAge + 12

Inputs ==
    { <<Entry("uid", IntV(1)), Entry("name", V_al)>>,
      <<Entry("uid", IntV(2)), Entry("name", V_al), Entry("age", IntV(AdultAge))>>,
      <<Entry("name", V_al)>>,
      <<Entry("name", V_al), Entry("age", IntV(YoungAge))>> }

Assignments == { Entry("name", V_Al) }

Criteria ==
    { EmptyDict,
      <<Entry("uid", IntV(1))>>,
      <<Entry("name", V_Al), Entry("age", IntV(AdultAge))>>,
      <<Entry(UnknownKey, IntV(1))>> }

\* the elements a table file found at start may hold
J(v) == JsonOfValue(v)
RowOk == Object(<<Entry("uid", J(IntV(1))), Entry("name", J(V_Al)),
                  Entry("age", J(IntV(AdultAge)))>>)
RowNoName == Object(<<Entry("uid", J(IntV(2))), Entry("age", J(IntV(AdultAge)))>>)
RowUnknown == Object(<<Entry("uid", J(IntV(2))), Entry("name", J(V_Al)),
                       Entry(UnknownKey, J(IntV(1)))>>)
RowNullAge == Object(<<Entry("uid", J(IntV(2))), Entry("name", J(V_Al)),
                       Entry("age", J(NoneV))>>)
RowLong == Object(<<Entry("uid", J(IntV(2))), Entry("name", J(V_alfred)),
                    Entry("age", J(IntV(AdultAge)))>>)
RowPool == {RowOk, RowNoName, RowUnknown, RowNullAge, RowLong, NotAnObject}

SeqsUpTo(S, n) == UNION {[1..m -> S] : m \in 0..n}

InitFiles ==
    {MissingFile, CorruptFile} \cup {TableFile(rows) : rows \in SeqsUpTo(RowPool, MaxInitRows)}

Init ==
    /\ cls \in ClassNames
    /\ file \in InitFiles
    /\ inst = [i \in Slots |-> NoInst]
    /\ autoCounters = [c \in ClassNames |-> 0]
    /\ uuidCount = 0
    /\ res = NoResult
    /\ pc = <<>>
    /\ loaded = <<>>

(***************************************************************************)
(* The calls of the client program.                                        *)
(***************************************************************************)
\* inst[i] = cls(**kwargs)
New(i, kwargs) ==
    \E r \in {Construct(cls, kwargs)} :
       /\ inst' = IF r.err = NoErr
                  THEN [inst EXCEPT ![i] = [alive |-> TRUE, attrs |-> r.attrs]]
                  ELSE inst
       /\ res' = Result("init", i, kwargs, r.err,
                        IF r.err = NoErr THEN <<r.attrs>> ELSE <<>>, EmptyDict, <<>>)
       /\ UNCHANGED <<cls, file, autoCounters, uuidCount, pc, loaded>>

\* inst[i].<e.k> = e.v
Assign(i, e) ==
    /\ inst[i].alive
    /\ IsField(cls, e.k)
    /\ \E r \in {ApplySets(cls, <<e>>, inst[i].attrs)} :
          /\ inst' = [inst EXCEPT ![i].attrs = r.attrs]
          /\ res' = Result("set", i, <<e>>, r.err, <<>>, EmptyDict, <<>>)
    /\ UNCHANGED <<cls, file, autoCounters, uuidCount, pc, loaded>>

\* inst[i].save()
SaveCall(i) ==
    /\ inst[i].alive
    /\ \E r \in {Save(cls, inst[i].attrs, GenOf(cls), file)} :
          /\ GenWithin(r.gen)
          /\ inst' = [inst EXCEPT ![i].attrs = r.attrs]
          /\ autoCounters' = [autoCounters EXCEPT ![cls] = r.gen.auto]
          /\ uuidCount' = r.gen.uuid
          /\ file' = r.file
          /\ res' = Result("save", i, EmptyDict, r.err, <<>>, r.rec, r.log)
    /\ UNCHANGED <<cls, pc, loaded>>

\* cls.all()
AllCall ==
    /\ \E r \in {All(cls, file)} :
          res' = Result("all", 0, EmptyDict, r.err, r.out, EmptyDict, <<>>)
    /\ UNCHANGED <<cls, file, inst, autoCounters, uuidCount, pc, loaded>>

\* cls.filter(**crit)
FilterCall(crit) ==
    /\ \E r \in {Filter(cls, file, crit, GenOf(cls))} :
          /\ GenWithin(r.gen)
          /\ autoCounters' = [autoCounters EXCEPT ![cls] = r.gen.auto]
          /\ uuidCount' = r.gen.uuid
          /\ res' = Result("filter", 0, crit, r.err, r.out, EmptyDict, <<>>)
    /\ UNCHANGED <<cls, file, inst, pc, loaded>>

\* cls.get(**crit)
GetCall(crit) ==
    /\ \E r \in {GetOne(cls, file, crit, GenOf(cls))} :
          /\ GenWithin(r.gen)
          /\ autoCounters' = [autoCounters EXCEPT ![cls] = r.gen.auto]
          /\ uuidCount' = r.gen.uuid
          /\ res' = Result("get", 0, crit, r.err, r.out, EmptyDict, <<>>)
    /\ UNCHANGED <<cls, file, inst, pc, loaded>>

Next ==
    \/ \E i \in Slots, kwargs \in Inputs : New(i, kwargs)
    \/ \E i \in Slots, e \in Assignments : Assign(i, e)
    \/ \E i \in Slots : SaveCall(i)
    \/ AllCall
    \/ \E crit \in Criteria : FilterCall(crit)
    \/ \E crit \in Criteria : GetCall(crit)

Spec == Init /\ [][Next]_vars
(***************************************************************************)
(* The same client program on a table that starts missing or empty.        *)
(***************************************************************************)
InitSaves ==
    /\ cls \in ClassNames
    /\ file \in {MissingFile, TableFile(<<>>)}
    /\ inst = [i \in Slots |-> NoInst]
    /\ autoCounters = [c \in ClassNames |-> 0]
    /\ uuidCount = 0
    /\ res = NoResult
    /\ pc = <<>>
    /\ loaded = <<>>

SpecSaves == InitSaves /\ [][Next]_vars

\* the same, for a class that declares no field named uid
InitKeyless ==
    /\ cls \in KeylessClasses
    /\ file \in {MissingFile, TableFile(<<>>)}
    /\ inst = [i \in Slots |-> NoInst]
    /\ autoCounters = [c \in AllClasses |-> 0]
    /\ uuidCount = 0
    /\ res = NoResult
    /\ pc = <<>>
    /\ loaded = <<>>

SpecKeyless == InitKeyless /\ [][Next]_vars

(***************************************************************************)
(* Construction on its own: a class, any input dict, then to_dict() of     *)
(* the new instance and construction again from that dict.                 *)
(***************************************************************************)
OneOrNone(k, vals) == {<<>>} \cup {<<Entry(k, v)>> : v \in vals}
UidOpts == OneOrNone("uid", {IntV(1), V_al})
NameOpts == OneOrNone("name", {V_al, V_alfred, IntV(7)})
AgeOpts == OneOrNone("age", {IntV(AdultAge), NoneV})
ExtraOpts == OneOrNone(UnknownKey, {IntV(1)})

\* the input dicts, keys in declaration order and in the reverse order
CtorInputs ==
    {u \o n \o a \o x : u \in UidOpts, n \in NameOpts, a \in AgeOpts, x \in ExtraOpts}
    \cup
    {x \o a \o n \o u : u \in UidOpts, n \in NameOpts, a \in AgeOpts, x \in ExtraOpts}

InitCtor ==
    /\ cls \in ClassNames
    /\ file = MissingFile
    /\ inst = [i \in Slots |-> NoInst]
    /\ autoCounters = [c \in ClassNames |-> 0]
    /\ uuidCount = 0
    /\ res = NoResult
    /\ pc = <<>>
    /\ loaded = <<>>

\* inst[i].to_dict(), called on the instance the last call constructed; the
\* result keeps the input dict of that construction in arg
ToDictCall(i) ==
    /\ res.op = "init" /\ res.err = NoErr /\ res.who = i
    /\ \E r \in {ToDict(cls, inst[i].attrs, GenOf(cls))} :
          /\ GenWithin(r.gen)
          /\ inst' = [inst EXCEPT ![i].attrs = r.attrs]
          /\ autoCounters' = [autoCounters EXCEPT ![cls] = r.gen.auto]
          /\ uuidCount' = r.gen.uuid
          /\ res' = Result("to_dict", i, res.arg, NoErr, <<r.attrs>>, r.d, <<>>)
    /\ UNCHANGED <<cls, file, pc, loaded>>

\* cls(**d).to_dict() for the dict d the last to_dict() returned
Rebuild ==
    /\ res.op = "to_dict"
    /\ \E made \in {Construct(cls, res.rec)} :
       \E td \in {ToDict(cls, made.attrs, GenOf(cls))} :
          IF made.err # NoErr
          THEN /\ res' = Result("again", res.who, res.rec, made.err, <<>>, EmptyDict, <<>>)
               /\ UNCHANGED <<autoCounters, uuidCount>>
          ELSE /\ GenWithin(td.gen)
               /\ autoCounters' = [autoCounters EXCEPT ![cls] = td.gen.auto]
               /\ uuidCount' = td.gen.uuid
               /\ res' = Result("again", res.who, res.rec, NoErr, <<td.attrs>>, td.d, <<>>)
    /\ UNCHANGED <<cls, file, inst, pc, loaded>>

NextCtor ==
    \/ \E kwargs \in CtorInputs : New(1, kwargs)
    \/ ToDictCall(1)
    \/ Rebuild

SpecCtor == InitCtor /\ [][NextCtor]_vars

(***************************************************************************)
(* Two processes that each call save() once on the same table, with        *)
(* records of different primary keys.  save() touches the file three       *)
(* times: it reads it whole, open(file, "w") truncates it, json.dump       *)
(* writes it whole; a file that is truncated or partly written holds no    *)
(* JSON.  Each process has its own memory; the keys are given at           *)
(* construction, so no generator is read.  res.log is the history of the   *)
(* steps.                                                                  *)
(***************************************************************************)
Writers == {1, 2}
WriterInput(p) == <<Entry("uid", IntV(p)), Entry("name", V_al)>>
Other(p) == CHOOSE q \in Writers : q # p
Step(p, what) == [p |-> p, what |-> what]

InitWriters ==
    /\ cls \in ClassNames
    /\ file \in InitFiles
    /\ inst = [p \in Writers |->
                 [alive |-> TRUE, attrs |-> Construct(cls, WriterInput(p)).attrs]]
    /\ autoCounters = [c \in ClassNames |-> 0]
    /\ uuidCount = 0
    /\ res = Result("writers", 0, EmptyDict, NoErr, <<>>, EmptyDict, <<>>)
    /\ pc = [p \in Writers |-> "idle"]
    /\ loaded = [p \in Writers |-> <<>>]

\* the hooks and "Load existing data"
WriterLoad(p) ==
    /\ pc[p] = "idle"
    /\ \E hooks \in {RunHooks(cls, inst[p].attrs)} :
          /\ inst' = [inst EXCEPT ![p].attrs = hooks.attrs]
          /\ IF hooks.err # NoErr
             THEN /\ pc' = [pc EXCEPT ![p] = "raised"]
                  /\ UNCHANGED loaded
             ELSE /\ pc' = [pc EXCEPT ![p] = "loaded"]
                  /\ loaded' = [loaded EXCEPT ![p] = LoadExisting(file)]
    /\ res' = [res EXCEPT !.log = Append(res.log, Step(p, "load"))]
    /\ UNCHANGED <<cls, file, autoCounters, uuidCount>>

\* to_dict(), the upsert into the loaded list, and open(file_name, "w")
WriterOpen(p) ==
    /\ pc[p] = "loaded"
    /\ \E td \in {ToDict(cls, inst[p].attrs, GenOf(cls))} :
       \E up \in {Upsert(loaded[p], td.d)} :
          IF up.err # NoErr
          THEN /\ pc' = [pc EXCEPT ![p] = "raised"]
               /\ UNCHANGED <<file, loaded>>
          ELSE /\ pc' = [pc EXCEPT ![p] = "opened"]
               /\ loaded' = [loaded EXCEPT ![p] = up.data]
               /\ file' = CorruptFile
    /\ res' = [res EXCEPT !.log = Append(res.log, Step(p, "open"))]
    /\ UNCHANGED <<cls, inst, autoCounters, uuidCount>>

\* json.dump(data, file, indent=2) and the close of the file
WriterDump(p) ==
    /\ pc[p] = "opened"
    /\ pc' = [pc EXCEPT ![p] = "done"]
    /\ file' = JsonDump(loaded[p])
    /\ res' = [res EXCEPT !.log = Append(res.log, Step(p, "dump"))]
    /\ UNCHANGED <<cls, inst, autoCounters, uuidCount, loaded>>

NextWriters == \E p \in Writers : WriterLoad(p) \/ WriterOpen(p) \/ WriterDump(p)

SpecWriters == InitWriters /\ [][NextWriters]_vars

(***************************************************************************)
(* Attribute reads and writes on their own: the TestModel classes of the   *)
(* field tests, whose instances start with nothing stored, and class User, *)
(* whose instances are constructed.  res.log is the history of the keys    *)
(* PrimaryKeyField._generate_id returned: [who, v] in the order generated. *)
(***************************************************************************)
MaxObjects == 2
Objects == 1..MaxObjects

FieldInputs ==
    { <<Entry("name", V_al)>>,
      <<Entry("uid", IntV(1)), Entry("name", V_al)>> }

FieldWrites ==
    { Entry("test_field", v) :
        v \in { NoneV, StrV(S_valid), StrV(S_INVALID), StrV(S_toolong), StrV(S_other),
                StrV(S_short), StrV(S_too_long), StrV(S_choice1),
                StrV(S_invalid_choice), IntV(10), IntV(-1) } }
    \cup { Entry("name", NoneV), Entry("name", V_Al), Entry("name", IntV(7)),
           Entry("age", V_al), Entry("age", IntV(AdultAge)) }

InitFields ==
    /\ cls \in FieldClasses \cup {"User"}
    /\ file = MissingFile
    /\ inst = [i \in Objects |->
                 IF cls \in FieldClasses THEN [alive |-> TRUE, attrs |-> NoAttrs]
                 ELSE NoInst]
    /\ autoCounters = [c \in AllClasses |-> 0]
    /\ uuidCount = 0
    /\ res = Result("fields", 0, EmptyDict, NoErr, <<>>, EmptyDict, <<>>)
    /\ pc = <<>>
    /\ loaded = <<>>

\* inst[i] = cls(**kwargs), for a class that is a Model
Create(i, kwargs) ==
    /\ cls \in ClassNames
    /\ \E r \in {Construct(cls, kwargs)} :
          /\ inst' = IF r.err = NoErr
                     THEN [inst EXCEPT ![i] = [alive |-> TRUE, attrs |-> r.attrs]]
                     ELSE inst
          /\ res' = Result("init", i, kwargs, r.err, <<>>, EmptyDict, res.log)
    /\ UNCHANGED <<cls, file, autoCounters, uuidCount, pc, loaded>>

\* inst[i].<e.k> = e.v
SetField(i, e) ==
    /\ inst[i].alive
    /\ IsField(cls, e.k)
    /\ \E r \in {ApplySets(cls, <<e>>, inst[i].attrs)} :
          /\ inst' = [inst EXCEPT ![i].attrs = r.attrs]
          /\ res' = Result("set", i, <<e>>, r.err, <<>>, EmptyDict, res.log)
    /\ UNCHANGED <<cls, file, autoCounters, uuidCount, pc, loaded>>

\* inst[i].<name>: the value read is res.out[1]
GetField(i, name) ==
    /\ inst[i].alive
    /\ IsField(cls, name)
    /\ \E r \in {ReadField(FieldOf(cls, name), inst[i].attrs, GenOf(cls))} :
          /\ GenWithin(r.gen)
          /\ inst' = [inst EXCEPT ![i].attrs = r.attrs]
          /\ autoCounters' = [autoCounters EXCEPT ![cls] = r.gen.auto]
          /\ uuidCount' = r.gen.uuid
          /\ res' = Result("getattr", i, <<Entry(name, r.v)>>, NoErr, <<r.v>>, EmptyDict,
                           IF r.gen # GenOf(cls)
                           THEN Append(res.log, [who |-> i, v |-> r.v])
                           ELSE res.log)
    /\ UNCHANGED <<cls, file, pc, loaded>>

NextFields ==
    \/ \E i \in Objects, kwargs \in FieldInputs : Create(i, kwargs)
    \/ \E i \in Objects, e \in FieldWrites : SetField(i, e)
    \/ \E i \in Objects, name \in AttrNames : GetField(i, name)

SpecFields == InitFields /\ [][NextFields]_vars

(***************************************************************************)
(* What the claims speak of, stated apart from the operators above.        *)
(***************************************************************************)
\* the table a file holds: its elements, none when missing or not JSON
StoredRows(f) == IF f.exists /\ f.json THEN f.rows ELSE <<>>
\* the table element json.dump writes for a record
RowOf(rec) == Object(JsonOfDict(rec))
\* the primary-key value of a stored object, None when it has no "uid"
RowKey(row) == IF Has(row.d, "uid") THEN ValueOfJson(Get(row.d, "uid")) ELSE NoneV
\* the positions of a table whose object has the key
Hits(rows, key) == {n \in 1..Len(rows) : rows[n].isdict /\ RowKey(rows[n]) = key}
Least(S) == CHOOSE n \in S : \A m \in S : n <= m
GenAfter == [auto |-> autoCounters'[cls], uuid |-> uuidCount']
FileEvents == {"exists", "read", "decode_error", "update", "insert", "write"}
Unreadable(f) == ~f.exists \/ ~f.json

\* the stored objects that pass construction, as instances, in stored order
Constructible(row) == row.isdict /\ Construct(cls, DictOfJson(row.d)).err = NoErr
ValidInstances(rows) ==
    LET kept == SelectSeq(rows, Constructible)
    IN [n \in 1..Len(kept) |-> Construct(cls, DictOfJson(kept[n].d)).attrs]

\* the value a criterion compares: the stored attribute, None when unset
AttrValue(attrs, k) == IF attrs[k] = Unset THEN NoneV ELSE attrs[k]
Meets(attrs, crit) == \A n \in 1..Len(crit) : AttrValue(attrs, crit[n].k) = crit[n].v

(***************************************************************************)
(* C1 (as claimed): save() followed by all() returns a sequence with       *)
(* exactly one instance that has the saved primary key, and that           *)
(* instance's to_dict() equals the saved instance's to_dict().             *)
(***************************************************************************)
C1_RoundTripStep ==
    (res.op = "save" /\ res.err = NoErr /\ res'.op = "all" /\ res'.err = NoErr) =>
        LET key == Get(res.rec, "uid")
            same == {n \in 1..Len(res'.out) : res'.out[n]["uid"] = key}
        IN /\ Cardinality(same) = 1
           /\ \A n \in same : DictEq(ToDict(cls, res'.out[n], GenOf(cls)).d, res.rec)

C1_RoundTrip == [][C1_RoundTripStep]_vars

(***************************************************************************)
(* C2: every save() that returns upserts by primary key.  If the table     *)
(* held an object with the instance's key, the first such object is        *)
(* replaced where it stands by the instance's current to_dict(), the       *)
(* number of elements and every other element stay as they were;           *)
(* otherwise exactly one record is appended at the end.                    *)
(***************************************************************************)
C2_UpsertStep ==
    (res'.op = "save" /\ res'.err = NoErr) =>
        LET old == StoredRows(file)
            new == file'.rows
            key == Get(res'.rec, "uid")
            row == RowOf(res'.rec)
        IN /\ file'.exists /\ file'.json
           /\ res'.rec = ToDict(cls, inst'[res'.who].attrs, GenAfter).d
           /\ IF Hits(old, key) # {}
              THEN /\ Len(new) = Len(old)
                   /\ new[Least(Hits(old, key))] = row
                   /\ \A n \in 1..Len(old) :
                        n # Least(Hits(old, key)) => new[n] = old[n]
              ELSE new = Append(old, row)

C2_UpsertByKey == [][C2_UpsertStep]_vars

\* a save that replaced the first of several elements
C2_Witness ==
    /\ res.op = "save" /\ res.err = NoErr
    /\ "update" \in SeqToSet(res.log)
    /\ Len(file.rows) >= 2
    /\ file.rows[1] = RowOf(res.rec)

(***************************************************************************)
(* C3 (as claimed): on a table file that holds a JSON array, all() never   *)
(* raises: it skips every stored record that fails construction, for       *)
(* whatever reason, and returns the instances of the others in stored      *)
(* order.                                                                  *)
(***************************************************************************)
C3_AllSkipsBadRecords ==
    (res.op = "all" /\ file.exists /\ file.json) =>
        /\ res.err = NoErr
        /\ res.out = ValidInstances(file.rows)

(***************************************************************************)
(* C4: on a missing or non-JSON table file all() returns an empty          *)
(* sequence and raises nothing; save() raises no storage error, and when   *)
(* its hooks pass it raises nothing and leaves a table of exactly the one  *)
(* saved record.                                                           *)
(***************************************************************************)
C4_StorageStep ==
    Unreadable(file) =>
        /\ res'.op = "all" => (res'.err = NoErr /\ res'.out = <<>> /\ file' = file)
        /\ res'.op = "save" =>
             IF res'.err = NoErr
             THEN file' = TableFile(<<RowOf(res'.rec)>>)
             ELSE res'.err.what = "clean" /\ file' = file

C4_StorageErrorsRecovered == [][C4_StorageStep]_vars

\* a save that found a file that is not JSON and left the saved record alone
C4_Witness ==
    /\ res.op = "save" /\ res.err = NoErr
    /\ "decode_error" \in SeqToSet(res.log)
    /\ file = TableFile(<<RowOf(res.rec)>>)

(***************************************************************************)
(* C5: save() runs before_save first and clean second, both before any     *)
(* access to the table file; when clean raises, the file is what it was    *)
(* (and is not created) although before_save has already acted.            *)
(***************************************************************************)
C5_HookStep ==
    res'.op = "save" =>
        LET log == res'.log
            i == res'.who
        IN /\ (HasBeforeSave(cls) /\ HasClean(cls)) =>
                (Len(log) >= 2 /\ log[1] = "before_save" /\ log[2] = "clean")
           /\ \A n \in 1..Len(log) :
                log[n] \in {"before_save", "clean"} =>
                    \A m \in 1..n : log[m] \notin FileEvents
           /\ res'.err.what = "clean" =>
                /\ file' = file
                /\ SeqToSet(log) \cap FileEvents = {}
                /\ inst'[i].attrs["name"] = StrV(Title(inst[i].attrs["name"].s))

C5_CleanAbortsSave == [][C5_HookStep]_vars

\* a save that clean refused while no table file existed
C5_Witness ==
    /\ res.op = "save" /\ res.err.what = "clean"
    /\ ~file.exists
    /\ inst[res.who].attrs["name"] = V_Al

(***************************************************************************)
(* C6: get(criteria) returns the one instance filter(criteria) holds,      *)
(* raises a not-found error when filter(criteria) is empty and an          *)
(* ambiguous-match error when it holds more than one; both errors carry    *)
(* the criteria; the table is not modified.                                *)
(***************************************************************************)
C6_GetStep ==
    res'.op = "get" =>
        LET m == Filter(cls, file, res'.arg, GenOf(cls))
        IN /\ file' = file
           /\ m.err = NoErr =>
                /\ Len(m.out) = 1 => (res'.err = NoErr /\ res'.out = m.out)
                /\ Len(m.out) = 0 =>
                     (/\ res'.err.kind = "ValueError" /\ res'.err.what = "not_found"
                      /\ res'.err.crit = res'.arg /\ res'.out = <<>>)
                /\ Len(m.out) > 1 =>
                     (/\ res'.err.kind = "ValueError" /\ res'.err.what = "multiple"
                      /\ res'.err.crit = res'.arg /\ res'.out = <<>>)

C6_GetOneOrRaise == [][C6_GetStep]_vars

\* a get whose two criteria matched two records
C6_Witness ==
    /\ res.op = "get" /\ res.err.what = "multiple"
    /\ Len(res.arg) = 2

(***************************************************************************)
(* C7: filter(criteria) returns, in the order of all(), exactly the        *)
(* instances of all() whose value for every criterion key equals the       *)
(* criterion value; with no criteria it returns what all() returns; the    *)
(* table is not modified.                                                  *)
(***************************************************************************)
C7_FilterStep ==
    (res'.op = "filter" /\ res'.err = NoErr) =>
        LET objs == All(cls, file).out
            Keep(attrs) == Meets(attrs, res'.arg)
        IN /\ file' = file
           /\ res'.out = SelectSeq(objs, Keep)
           /\ res'.arg = EmptyDict => res'.out = objs

C7_FilterSelects == [][C7_FilterStep]_vars

\* a filter on two criteria that kept one of several instances
C7_Witness ==
    /\ res.op = "filter" /\ res.err = NoErr
    /\ Len(res.arg) = 2
    /\ Len(res.out) = 1
    /\ Len(All(cls, file).out) >= 2
(***************************************************************************)
(* C8: when a required field with no default is absent from the input,     *)
(* construction fails with the missing-required error, which lists every   *)
(* such field in declaration order, whatever else the input holds          *)
(* (unknown keys, values a field rejects).                                 *)
(***************************************************************************)
Needed(c, kwargs) ==
    {n \in 1..Len(Fields(c)) :
        /\ Fields(c)[n].required
        /\ Fields(c)[n].default = NoneV
        /\ Fields(c)[n].name \notin SeqToSet(KeysOf(kwargs))}

C8_MissingRequiredFirst ==
    (res.op = "init" /\ Needed(cls, res.arg) # {}) =>
        /\ res.err.kind = "ValueError" /\ res.err.what = "missing"
        /\ Len(res.err.names) = Cardinality(Needed(cls, res.arg))
        /\ \E pos \in [1..Len(res.err.names) -> Needed(cls, res.arg)] :
             /\ \A a, b \in 1..Len(res.err.names) : a < b => pos[a] < pos[b]
             /\ \A a \in 1..Len(res.err.names) :
                  res.err.names[a] = Fields(cls)[pos[a]].name

\* a construction that lacks two required fields and also passes an unknown
\* key and a value of a third field
C8_Witness ==
    /\ res.op = "init"
    /\ res.err.what = "missing" /\ res.err.names = <<"uid", "name">>
    /\ Has(res.arg, UnknownKey) /\ Has(res.arg, "age")

(***************************************************************************)
(* C9 (as claimed): for a valid input dict D, to_dict(construct(D)) has    *)
(* the declared field names as its keys, in declaration order, and the     *)
(* value of D, or else the configured default, for each of them (a         *)
(* generated primary key aside); constructing again from that dict         *)
(* succeeds and gives the same dict.                                       *)
(***************************************************************************)
Generates(fd) == fd.kind = "PrimaryKeyField" /\ (fd.auto \/ fd.uuid_mode)

C9_DictRoundTrip ==
    /\ res.op = "to_dict" =>
         /\ KeysOf(res.rec) = FieldNames(cls)
         /\ \A n \in 1..Len(Fields(cls)) :
              LET fd == Fields(cls)[n]
              IN IF Has(res.arg, fd.name) THEN res.rec[n].v = Get(res.arg, fd.name)
                 ELSE Generates(fd) \/ res.rec[n].v = fd.default
    /\ res.op = "again" => (res.err = NoErr /\ res.rec = res.arg)

(***************************************************************************)
(* C10: two save() calls on one table for records with different primary   *)
(* keys, each a whole-file read and a whole-file write with no lock.  Run  *)
(* one after the other, both records are in the table.  Run concurrently,  *)
(* the table is what the last writer wrote, so a record is lost exactly    *)
(* when the last writer had read the file before the other's write         *)
(* completed.                                                              *)
(***************************************************************************)
BothDone == \A p \in Writers : pc[p] = "done"
Key(p) == IntV(p)
Present(p) == Hits(StoredRows(file), Key(p)) # {}
PosOf(p, what) == CHOOSE n \in 1..Len(res.log) : res.log[n] = Step(p, what)
\* p's save() ended before q's began
Before(p, q) == PosOf(p, "dump") < PosOf(q, "load")
LastWriter == CHOOSE p \in Writers : PosOf(Other(p), "dump") < PosOf(p, "dump")

C10_LastWriteWins ==
    BothDone =>
        /\ file.exists /\ file.json
        /\ Present(LastWriter)
        /\ Len(file.rows) = Len(loaded[LastWriter])
        /\ (\E p \in Writers : Before(p, Other(p))) => \A p \in Writers : Present(p)
        /\ \A p \in Writers :
             ~Present(p) =>
                /\ LastWriter = Other(p)
                /\ PosOf(Other(p), "load") < PosOf(p, "dump")

\* both save() calls returned and the table holds one of the two records
C10_Witness ==
    /\ BothDone
    /\ \E p \in Writers : Present(p) /\ ~Present(Other(p))

(***************************************************************************)
(* C11 (as claimed): a field write runs its checks in the order            *)
(* required/non-null, type, maximum length, choices, custom predicate;     *)
(* the first check that fails in that order is the one reported, as a      *)
(* ValidationError naming the field, and a write no check fails is         *)
(* accepted.  A write whose custom predicate itself raises is left open.   *)
(***************************************************************************)
TypeFails(fd, v) ==
    \/ fd.kind = "StringField" /\ v.t # "str"
    \/ fd.kind \in {"IntegerField", "PrimaryKeyField"} /\ v.t # "int"
TooLong(fd, v) == fd.max_length # NoneV /\ v.t = "str" /\ Len(v.s) > fd.max_length.i
NotAChoice(fd, v) == ~fd.choices.none /\ v \notin fd.choices.vals
PredicateRaises(fd, v) ==
    \/ fd.validator = "positive" /\ v.t # "int"
    \/ fd.validator = "islower" /\ v.t # "str"
PredicateFalse(fd, v) ==
    \/ fd.validator = "positive" /\ v.t = "int" /\ v.i <= 0
    \/ fd.validator = "islower" /\ v.t = "str" /\ ~IsLowerStr(v.s)

\* the check the claimed order reports: "none" when every check passes,
\* "open" when the custom predicate raises
ClaimedFailure(fd, v) ==
    IF fd.required /\ v = NoneV THEN "required"
    ELSE IF TypeFails(fd, v) THEN "type"
    ELSE IF TooLong(fd, v) THEN "max_length"
    ELSE IF NotAChoice(fd, v) THEN "choices"
    ELSE IF PredicateRaises(fd, v) THEN "open"
    ELSE IF PredicateFalse(fd, v) THEN "custom"
    ELSE "none"

C11_WriteStep ==
    res'.op = "set" =>
        LET e == res'.arg[1]
            claimed == ClaimedFailure(FieldOf(cls, e.k), e.v)
        IN /\ claimed = "none" => res'.err = NoErr
           /\ claimed \notin {"none", "open"} =>
                /\ res'.err.kind = "ValidationError"
                /\ res'.err.what = claimed
                /\ res'.err.names = <<e.k>>

C11_ChecksInClaimedOrder == [][C11_WriteStep]_vars

(***************************************************************************)
(* C12: an assignment either stores its value, which then violates none    *)
(* of the field's required, max-length, choices and custom-predicate       *)
(* constraints, or is rejected and leaves the stored value of the field    *)
(* and every other field and instance as they were; a value that fails no  *)
(* check is stored.  So every stored value of a field is the last value    *)
(* that passed its validation, and no field holds a value that violates    *)
(* its constraints.                                                        *)
(***************************************************************************)
Violates(fd, v) ==
    \/ fd.required /\ v = NoneV
    \/ TooLong(fd, v)
    \/ NotAChoice(fd, v)
    \/ PredicateFalse(fd, v)

NoInvalidStored ==
    \A i \in DOMAIN inst : \A n \in 1..Len(Fields(cls)) :
        LET fd == Fields(cls)[n]
        IN inst[i].attrs[fd.name] # Unset => ~Violates(fd, inst[i].attrs[fd.name])

C12_AssignStep ==
    res'.op = "set" =>
        LET e == res'.arg[1]
            i == res'.who
            fd == FieldOf(cls, e.k)
        IN /\ \A j \in DOMAIN inst : j # i => inst'[j] = inst[j]
           /\ inst'[i].alive = inst[i].alive
           /\ IF res'.err = NoErr
              THEN /\ inst'[i].attrs = [inst[i].attrs EXCEPT ![e.k] = e.v]
                   /\ ~Violates(fd, e.v)
              ELSE inst'[i].attrs = inst[i].attrs
           /\ ClaimedFailure(fd, e.v) = "none" => res'.err = NoErr

C12_StoredValuesPassed == [][C12_AssignStep /\ NoInvalidStored']_vars

\* a rejected assignment to a constrained field that holds an accepted value
C12_Witness ==
    /\ res.op = "set" /\ res.err.kind = "ValidationError"
    /\ \E i \in DOMAIN inst :
          /\ res.who = i
          /\ inst[i].attrs[res.arg[1].k] # Unset
          /\ inst[i].attrs[res.arg[1].k] # res.arg[1].v

(***************************************************************************)
(* C13: for a class whose key is an auto-increment PrimaryKeyField, a read *)
(* of the key on an instance with no stored key returns the class counter  *)
(* plus one, advances that counter by one and no other, and caches the     *)
(* value; a read on an instance with a stored key returns it and changes   *)
(* nothing; construction with an explicit key stores it and leaves the     *)
(* counters alone.  The keys generated are 1, 2, 3, ... in that order, so  *)
(* no two are equal.                                                       *)
(***************************************************************************)
AutoKey(c, k) == IsField(c, k) /\ FieldOf(c, k).kind = "PrimaryKeyField" /\ FieldOf(c, k).auto

C13_ReadStep ==
    (res'.op = "getattr" /\ AutoKey(cls, res'.arg[1].k)) =>
        LET k == res'.arg[1].k
            i == res'.who
            stored == inst[i].attrs[k]
        IN /\ \A c \in DOMAIN autoCounters :
                c # cls => autoCounters'[c] = autoCounters[c]
           /\ \A j \in DOMAIN inst : j # i => inst'[j] = inst[j]
           /\ IF stored = Unset
              THEN /\ res'.out = <<IntV(autoCounters[cls] + 1)>>
                   /\ autoCounters'[cls] = autoCounters[cls] + 1
                   /\ inst'[i].attrs = [inst[i].attrs EXCEPT ![k] = res'.out[1]]
                   /\ res'.log = Append(res.log, [who |-> i, v |-> res'.out[1]])
              ELSE /\ res'.out = <<stored>>
                   /\ autoCounters' = autoCounters
                   /\ inst' = inst
                   /\ res'.log = res.log

C13_CreateStep ==
    (res'.op = "init" /\ res'.err = NoErr) =>
        /\ autoCounters' = autoCounters
        /\ res'.log = res.log
        /\ \A n \in 1..Len(res'.arg) :
              AutoKey(cls, res'.arg[n].k) =>
                  inst'[res'.who].attrs[res'.arg[n].k] = res'.arg[n].v

GeneratedInOrder ==
    /\ \A n \in 1..Len(res.log) : res.log[n].v = IntV(n)
    /\ \A m, n \in 1..Len(res.log) : m # n => res.log[m].v # res.log[n].v
    /\ Len(res.log) = autoCounters[cls]

C13_AutoIncrementKeys ==
    [][C13_ReadStep /\ C13_CreateStep /\ GeneratedInOrder']_vars

\* two instances generated different keys, and a later read of the first
\* instance returned the key it generated
C13_Witness ==
    /\ Len(res.log) = 2
    /\ res.log[1].who # res.log[2].who
    /\ res.op = "getattr" /\ AutoKey(cls, res.arg[1].k)
    /\ res.who = res.log[1].who
    /\ res.out = <<res.log[1].v>>
    /\ inst[res.log[2].who].attrs[res.arg[1].k] = res.log[2].v

(***************************************************************************)
(* C14: on a table that starts missing or empty, with save() calls made    *)
(* one at a time on instances of one class, no two records of the table    *)
(* ever have the same primary key; a save() that returns leaves the keys   *)
(* of the table as they were when its key was among them, and otherwise    *)
(* adds its key at the end; nothing else changes the table.  So the        *)
(* records stand in the order in which their keys were first saved.        *)
(***************************************************************************)
KeysIn(rows) == [n \in 1..Len(rows) |-> RowKey(rows[n])]
NoDuplicateKeys ==
    \A m, n \in 1..Len(StoredRows(file)) :
        m # n => RowKey(StoredRows(file)[m]) # RowKey(StoredRows(file)[n])

C14_SaveStep ==
    LET old == KeysIn(StoredRows(file))
        new == KeysIn(StoredRows(file'))
        key == Get(res'.rec, "uid")
    IN IF res'.op = "save" /\ res'.err = NoErr
       THEN new = IF key \in SeqToSet(old) THEN old ELSE Append(old, key)
       ELSE file' = file

C14_KeysUniqueInSaveOrder == [][C14_SaveStep /\ NoDuplicateKeys']_vars

\* a table of two records whose first key was saved again
C14_Witness ==
    /\ res.op = "save" /\ res.err = NoErr
    /\ Len(StoredRows(file)) = 2
    /\ RowKey(file.rows[1]) = Get(res.rec, "uid")
    /\ RowKey(file.rows[2]) # Get(res.rec, "uid")

(***************************************************************************)
(* C15: for a class that declares no field named uid the record save()     *)
(* writes has no "uid", and a save() that returns on a non-empty table     *)
(* replaces the first record and appends nothing; starting from a missing  *)
(* or empty table, the table never holds more than one record.             *)
(***************************************************************************)
C15_SaveStep ==
    (res'.op = "save" /\ res'.err = NoErr) =>
        LET old == StoredRows(file)
            new == StoredRows(file')
        IN /\ ~Has(res'.rec, "uid")
           /\ IF old = <<>>
              THEN new = <<RowOf(res'.rec)>>
              ELSE /\ new = [old EXCEPT ![1] = RowOf(res'.rec)]
                   /\ "update" \in SeqToSet(res'.log)

C15_KeylessTableHoldsOne ==
    [][C15_SaveStep /\ Len(StoredRows(file')) <= 1]_vars

\* a save() that found a record in the table and wrote its own in its place
C15_Witness ==
    /\ res.op = "save" /\ res.err = NoErr
    /\ "update" \in SeqToSet(res.log)
    /\ Len(StoredRows(file)) = 1
    /\ Get(res.rec, "name") = V_Al
====
